---------------------------- MODULE Spec2Model ----------------------------
(***************************************************************************)
(* A model of grapple/data/torch.py: the two iterable datasets PUDataset   *)
(* and METDataset.                                                         *)
(*                                                                         *)
(*   Spec         the dataset object and its generator passes (__init__,   *)
(*                _get_len, __iter__ as a generator resumed by next()).   *)
(*   SpecEvent    the body of PUDataset.__iter__'s inner loop, applied to  *)
(*                one event drawn from bounded sets.                       *)
(*   SpecMET      the per-file and per-event arithmetic of                 *)
(*                METDataset.__iter__, with standardize_met and            *)
(*                unstandardize_met, on binary floating point.             *)
(*   SpecCollate  the two collate_fn static methods.                       *)
(*                                                                         *)
(* An optional value is a sequence: None is <<>> and the value v is <<v>>.  *)
(* Arrays are sequences; positions the code counts from 0 are counted from *)
(* 1 here, and every comparison with a 0-based quantity (N[i], negative    *)
(* indices) says so.                                                       *)
(***************************************************************************)
EXTENDS Integers, Sequences, FiniteSets

None == <<>>

Some(v) == <<v>>

\* the value of an optional that is not None
Val(o) == o[1]

(***************************************************************************)
(* Bounds of the model.                                                    *)
(***************************************************************************)
\* number of files the glob patterns match
NumFiles == 2

(***************************************************************************)
(* Helpers on sequences.                                                   *)
(***************************************************************************)
Range(s) == {s[i] : i \in DOMAIN s}

NoDup(s) == \A i, j \in DOMAIN s : s[i] = s[j] => i = j

Min(a, b) == IF a <= b THEN a ELSE b

\* list[:k] of Python: the first k elements, all of them when k is None
Take(list, k) ==
    IF k = None THEN list ELSE SubSeq(list, 1, Min(Val(k), Len(list)))

Perms(n) == {p \in [1..n -> 1..n] : \A i, j \in 1..n : p[i] = p[j] => i = j}

\* a draw with replacement (np.random.choice): elements may repeat
ShuffleWithRepeat(list) ==
    {[i \in 1..Len(list) |-> list[p[i]]] : p \in [1..Len(list) -> 1..Len(list)]}

\* np.random.shuffle(list): the outcomes of an in-place shuffle, every
\* permutation of the list
Shuffle(list) ==
    {[i \in 1..Len(list) |-> list[p[i]]] : p \in Perms(Len(list))}

\* np.arange(n), shifted to 1..n
Arange(n) == [i \in 1..n |-> i]

(***************************************************************************)
(* The files on disk.  File f holds the per-event arrays N (number of real *)
(* particles) and met (generator MET); the files differ in their number of *)
(* events, and file 3 holds none.                                          *)
(***************************************************************************)
\* number of slots of the stored particle axis (X.shape[1] of a file)
StoredWidth == 2

Data(f) ==
    CASE f = 1 -> [N |-> <<0, 2>>, met |-> <<1, 5>>]
      [] f = 2 -> [N |-> <<1>>,    met |-> <<5>>]
      [] f = 3 -> [N |-> <<>>,     met |-> <<>>]
      [] OTHER -> [N |-> <<3>>,    met |-> <<1>>]

NEvents(f) == Len(Data(f).N)

\* sorted(glob(pattern)): the file names in order
SortedGlob == Arange(NumFiles)

\* the sum of s[lo..hi], by halves (the integers are exact, so the order
\* of the additions does not matter)
RECURSIVE SumRange(_, _, _)
SumRange(s, lo, hi) ==
    IF lo > hi THEN 0
    ELSE IF lo = hi THEN s[lo]
    ELSE SumRange(s, lo, (lo + hi) \div 2)
            + SumRange(s, (lo + hi) \div 2 + 1, hi)

SumSeq(s) == SumRange(s, 1, Len(s))

(***************************************************************************)
(* PUDataset._get_len (after its shuffle) and METDataset._get_len.         *)
(***************************************************************************)
\* evt_mask of one file: genmet > min_met, or all ones
EvtMask(f, min_met) ==
    [i \in 1..NEvents(f) |->
        IF min_met # None THEN Data(f).met[i] > Val(min_met) ELSE TRUE]

\* N[evt_mask].shape[0]
CountMasked(f, min_met) ==
    Cardinality({i \in 1..NEvents(f) : EvtMask(f, min_met)[i]})

PUGetLen(shuffled, num_max_files, min_met) ==
    SumSeq([k \in 1..Len(Take(shuffled, num_max_files)) |->
                CountMasked(Take(shuffled, num_max_files)[k], min_met)])

METGetLen(list) == SumSeq([k \in 1..Len(list) |-> NEvents(list[k])])

(***************************************************************************)
(* y[~mask] = -1 of PUDataset.__iter__.  mask is an integer array (it was  *)
(* cast with astype(int)), so ~mask is the bitwise complement -mask-1 and  *)
(* y[~mask] is integer (fancy) indexing with the indices -1 and -2, which  *)
(* count from the end of y; an index below -len(y) raises IndexError.      *)
(***************************************************************************)
Mask(L, n) == [j \in 1..L |-> IF j - 1 < n THEN 1 ELSE 0]

Invert(mask) == [j \in DOMAIN mask |-> -mask[j] - 1]

\* the 1-based position a Python index ix (negative: from the end) names
Position(L, ix) == IF ix < 0 THEN L + ix + 1 ELSE ix + 1

IndexInBounds(L, ix) == -L <= ix /\ ix < L

\* whether y[~mask] = -1 raises IndexError for a slice of L slots and N[i] = n
MaskAssignRaises(L, n) ==
    \E j \in 1..L : ~IndexInBounds(L, Invert(Mask(L, n))[j])

(***************************************************************************)
(* The dataset object and its passes.                                      *)
(***************************************************************************)
Passes == {1, 2}

VARIABLES
    kind,       \* "PU" or "MET": the class of the dataset object
    cfg,        \* the configuration fields __init__ stored
    files,      \* self._files
    len,        \* self._len
    counted,    \* history: the files the _get_len pre-pass read
    gen,        \* the generator objects __iter__ returned, one per pass
    call,       \* SpecEvent, SpecMET, SpecCollate: the function applied
    arg,        \*   its arguments
    ret         \*   "pending", "returned" or "raised", and the value

dsVars == <<kind, cfg, files, len, counted, gen>>

fnVars == <<call, arg, ret>>

vars == <<kind, cfg, files, len, counted, gen, call, arg, ret>>

\* no function is being applied (Spec)
NoCall == call = "none" /\ arg = <<>> /\ ret = [state |-> "none"]

\* A generator that has not run yet.  pc: "new" (created, body not entered),
\* "susp" (suspended at the yield), "done" (StopIteration), "raised".
\*   src    PU: the slice self._files[:num_max_files] the for loop iterates
\*   fpos   the list iterator's index: the position of the file last loaded
\*   idx    the shuffled event indices of the file last loaded
\*   ipos   how many of idx were consumed
\*   out    history: the events yielded, as <<file, event>>
\*   read   history: the files loaded, in order
\*   alone  history: no other pass ran while this one was suspended
NewGen ==
    [pc |-> "new", src |-> <<>>, fpos |-> 0, idx |-> <<>>, ipos |-> 0,
     out |-> <<>>, read |-> <<>>, alone |-> TRUE]

PUConfigs ==
    [num_max_files : {Some(k) : k \in 1..NumFiles},
     min_met : {None, Some(3)}, n_particles : 1..StoredWidth]

METConfigs == [num_max_files : {Some(k) : k \in 1..NumFiles}]

InitPU ==
    /\ kind = "PU"
    /\ cfg \in PUConfigs
    /\ files \in Shuffle(SortedGlob)
    /\ len = PUGetLen(files, cfg.num_max_files, cfg.min_met)
    /\ counted = Take(files, cfg.num_max_files)

InitMET ==
    /\ kind = "MET"
    /\ cfg \in METConfigs
    /\ files = Take(SortedGlob, cfg.num_max_files)
    /\ len = METGetLen(files)
    /\ counted = files

Init ==
    /\ InitPU \/ InitMET
    /\ gen = [g \in Passes |-> NewGen]
    /\ NoCall

\* the list the for loop of pass g walks: the slice it took (PU), or the
\* shared list itself, read at every step (MET)
LoopList(g, shared) == IF kind = "PU" THEN gen[g].src ELSE shared

\* the first position after k whose file holds an event, Len(list)+1 if none:
\* the for loop loads each file on the way and yields nothing for an empty one
RECURSIVE NextFile(_, _)
NextFile(list, k) ==
    IF k + 1 > Len(list) THEN k + 1
    ELSE IF NEvents(list[k + 1]) > 0 THEN k + 1
    ELSE NextFile(list, k + 1)

\* X[:, :self.n_particles, :].shape[1]
SliceLen == Min(cfg.n_particles, StoredWidth)

\* whether the loop body raises before the yield for event e of file f
BodyRaises(f, e) ==
    kind = "PU" /\ MaskAssignRaises(SliceLen, Data(f).N[e])

\* the other passes that are suspended lose "alone"
Disturb(g, gs) ==
    [h \in Passes |->
        IF h # g /\ gs[h].pc = "susp" THEN [gs[h] EXCEPT !.alone = FALSE]
        ELSE gs[h]]

\* the for loop over the files moves on from position k of list: it loads
\* the files up to the next one with events, shuffles that file's indices
\* and runs the body for the first of them
EnterNextFile(g, base, list, k) ==
    LET pos   == NextFile(list, k)
        upto  == Min(pos, Len(list))
        loads == SubSeq(list, k + 1, upto)
    IN  IF pos > Len(list)
        THEN gen' = Disturb(g, [gen EXCEPT ![g] =
                        [base EXCEPT !.pc = "done", !.fpos = upto,
                                     !.read = base.read \o loads]])
        ELSE \E idx \in Shuffle(Arange(NEvents(list[pos]))) :
                gen' = Disturb(g, [gen EXCEPT ![g] =
                    [base EXCEPT
                        !.pc = IF BodyRaises(list[pos], idx[1])
                               THEN "raised" ELSE "susp",
                        !.fpos = pos, !.idx = idx, !.ipos = 1,
                        !.read = base.read \o loads,
                        !.out = IF BodyRaises(list[pos], idx[1]) THEN base.out
                                ELSE Append(base.out, <<list[pos], idx[1]>>)]])

\* the first next() on a generator: __iter__'s body starts, shuffles
\* self._files in place and enters the loop over the files
Begin(g) ==
    /\ gen[g].pc = "new"
    /\ \E shuffled \in Shuffle(files) :
        /\ files' = shuffled
        /\ LET base == [gen[g] EXCEPT
                          !.src = IF kind = "PU"
                                  THEN Take(shuffled, cfg.num_max_files)
                                  ELSE <<>>]
               list == IF kind = "PU" THEN base.src ELSE shuffled
           IN  EnterNextFile(g, base, list, 0)
    /\ UNCHANGED <<kind, cfg, len, counted, fnVars>>

\* next() while events of the loaded file remain: the body runs for the
\* next shuffled index
NextEvent(g) ==
    /\ gen[g].pc = "susp"
    /\ gen[g].ipos < Len(gen[g].idx)
    /\ LET f == gen[g].read[Len(gen[g].read)]
           e == gen[g].idx[gen[g].ipos + 1]
       IN  gen' = Disturb(g, [gen EXCEPT ![g] =
                [gen[g] EXCEPT
                    !.pc = IF BodyRaises(f, e) THEN "raised" ELSE "susp",
                    !.ipos = gen[g].ipos + 1,
                    !.out = IF BodyRaises(f, e) THEN gen[g].out
                            ELSE Append(gen[g].out, <<f, e>>)]])
    /\ UNCHANGED <<kind, cfg, files, len, counted, fnVars>>

\* next() when the loaded file is exhausted: the loop over the files goes on
NextFileStep(g) ==
    /\ gen[g].pc = "susp"
    /\ gen[g].ipos = Len(gen[g].idx)
    /\ EnterNextFile(g, gen[g], LoopList(g, files), gen[g].fpos)
    /\ UNCHANGED <<kind, cfg, files, len, counted, fnVars>>

Next == \E g \in Passes : Begin(g) \/ NextEvent(g) \/ NextFileStep(g)

Spec == Init /\ [][Next]_vars

(***************************************************************************)
(* Properties of the passes.                                               *)
(***************************************************************************)
\* the events of the files of list, as <<file, event>>
EventsOf(list) ==
    UNION {{<<list[k], e>> : e \in 1..NEvents(list[k])} : k \in DOMAIN list}

\* the position of file f in the sequence of files a pass loaded
ReadPos(g, f) == CHOOSE k \in DOMAIN gen[g].read : gen[g].read[k] = f

\* the files of out come in the order the pass loaded them: all events of
\* one file before any event of the next
GroupedByFile(g) ==
    \A a, b \in DOMAIN gen[g].out :
        a < b => ReadPos(g, gen[g].out[a][1]) <= ReadPos(g, gen[g].out[b][1])

\* a finished pass loaded each file of its list once and yielded each of
\* their events once
VisitedOnce(g) ==
    /\ NoDup(gen[g].read)
    /\ Range(gen[g].read) = Range(LoopList(g, files))
    /\ Len(gen[g].read) = Len(LoopList(g, files))
    /\ NoDup(gen[g].out)
    /\ Range(gen[g].out) = EventsOf(gen[g].read)

\* C1: the value __len__ returns equals the number of events one complete
\* __iter__ pass of a PUDataset yields.
LenEqualsYielded ==
    \A g \in Passes :
        (kind = "PU" /\ gen[g].pc = "done") => Len(gen[g].out) = len

\* C3: in a pass that no other pass interleaves with, for either class, no
\* file is loaded twice and no event is yielded twice, the events of one
\* file are yielded before any event of the next, and when the pass ends
\* the files loaded are a permutation of the list it walks and the events
\* yielded are exactly the events of those files.
UninterruptedPassVisitsOnce ==
    \A g \in Passes :
        gen[g].alone =>
            /\ NoDup(gen[g].read)
            /\ NoDup(gen[g].out)
            /\ Range(gen[g].out) \subseteq EventsOf(gen[g].read)
            /\ GroupedByFile(g)
            /\ gen[g].pc = "done" => VisitedOnce(g)

\* an uninterrupted pass ended after loading two files and yielding three
\* events, while the other pass ran too
UninterruptedPassWitness ==
    \E g \in Passes :
        /\ gen[g].alone /\ gen[g].pc = "done"
        /\ Len(gen[g].read) >= 2 /\ Len(gen[g].out) >= 3
        /\ \E h \in Passes : h # g /\ gen[h].pc # "new"

\* C7: also when passes over the same dataset object interleave, every
\* finished pass has visited each of its files once and yielded each of
\* their events once.
InterleavedPassesVisitOnce ==
    \A g \in Passes : gen[g].pc = "done" => VisitedOnce(g)

\* C10: the files a PUDataset pass reads are the files the _get_len
\* pre-pass counted, in every pass.
SelectionStable ==
    \A g \in Passes :
        (kind = "PU" /\ gen[g].pc # "new") =>
            Range(gen[g].src) = Range(counted)

(***************************************************************************)
(* The body of the inner loop of PUDataset.__iter__ (one event).           *)
(*                                                                         *)
(* An event is its row of every stored array: x (one record per particle   *)
(* slot: eta is feature column 1, phi column 2, q5 column 5), y, N and the *)
(* arrays that are passed through.  numpy's booleans are 1 and 0, as       *)
(* astype(int) and logical_and read them.                                  *)
(***************************************************************************)
\* width of the particle axis of the events drawn
MaxParticles == 3

Sq(a) == a * a

Bool01(b) == IF b THEN 1 ELSE 0

\* np.eye(n, n)
Eye(n) == [j \in 1..n |-> [k \in 1..n |-> Bool01(j = k)]]

\* cone_adj with the strict comparison dr2 < cone2
PUConeAdjStrict(eta, phi, cone) ==
    IF cone = 0 THEN Eye(Len(eta))
    ELSE [j \in 1..Len(eta) |-> [k \in 1..Len(eta) |->
            Bool01(Sq(eta[j] - eta[k]) + Sq(phi[j] - phi[k]) < Sq(cone))]]

\* PUDataset.cone_adj(eta, phi, cone)
PUConeAdj(eta, phi, cone) ==
    IF cone = 0 THEN Eye(Len(eta))
    ELSE [j \in 1..Len(eta) |-> [k \in 1..Len(eta) |->
            Bool01(Sq(eta[j] - eta[k]) + Sq(phi[j] - phi[k]) <= Sq(cone))]]

\* np.logical_and(adj, np.logical_and(mask[:, None], mask)).astype(int)
MaskedAdj(adj, mask) ==
    [j \in DOMAIN mask |-> [k \in DOMAIN mask |->
        Bool01(adj[j][k] # 0 /\ mask[j] # 0 /\ mask[k] # 0)]]

\* y[index] = v for an integer index array: the positions the indices name
\* are overwritten (no index is out of bounds)
FancyAssign(y, index, v) ==
    [j \in DOMAIN y |->
        IF \E i \in DOMAIN index : Position(Len(y), index[i]) = j
        THEN v ELSE y[j]]

\* q_mask that only sees positive charges
QMaskPositive(x) == [j \in DOMAIN x |-> x[j].q5 > 0]

\* q_mask = (x[:, 5] != 0)
QMask(x) == [j \in DOMAIN x |-> x[j].q5 # 0]

\* y[q_mask] = v for a boolean mask
BoolAssign(y, q_mask, v) == [j \in DOMAIN y |-> IF q_mask[j] THEN v ELSE y[j]]

\* whether the body raises (IndexError of y[~mask] = -1) for event ev
PUBodyRaises(ev, c) ==
    MaskAssignRaises(Len(Take(ev.x, Some(c.n_particles))), ev.N)

\* to_yield of the body, for an event on which it does not raise
PUToYield(ev, c) ==
    LET x      == Take(ev.x, Some(c.n_particles))
        Y      == Take(ev.y, Some(c.n_particles))
        mask   == Mask(Len(x), ev.N)
        eta    == [j \in DOMAIN x |-> x[j].eta]
        phi    == [j \in DOMAIN x |-> x[j].phi]
        y1     == FancyAssign(Y, Invert(mask), -1)
        orig_y == y1
        y      == IF c.mask_charged THEN BoolAssign(y1, QMask(x), -1) ELSE y1
    IN  [x        |-> x,
         y        |-> y,
         adj_mask |-> IF c.dr_adj # None
                      THEN MaskedAdj(PUConeAdj(eta, phi, Val(c.dr_adj)), mask)
                      ELSE mask,
         q        |-> Take(ev.q, Some(c.n_particles)),
         p        |-> Take(ev.p, Some(c.n_particles)),
         genmet   |-> ev.met,
         genmetphi |-> ev.metphi,
         puppimet |-> ev.puppimet,
         pfmet    |-> ev.pfmet,
         orig_y   |-> orig_y,
         mask     |-> mask,
         mjj      |-> ev.mjj,
         jpt0     |-> ev.jpt0,
         jm0      |-> ev.jm0]

Widths == 1..MaxParticles

\* the events whose geometry varies (labels and charges fixed) and the
\* events whose labels and charges vary (geometry fixed)
GeometrySlots == [eta : 0..2, phi : 0..1, q5 : {0}]

LabelSlots == [eta : {0}, phi : {0}, q5 : {-1, 0, 1}]

PUEvent(x, y, n) ==
    [x |-> x, y |-> y, N |-> n,
     q |-> [j \in DOMAIN x |-> x[j].q5], p |-> [j \in DOMAIN x |-> 1],
     met |-> 5, metphi |-> 0, mjj |-> 0, jpt0 |-> 0, jm0 |-> 0,
     puppimet |-> 4, pfmet |-> 6]

\* n_particles cuts the stored width, equals it or exceeds it
NParticlesFor(w) == {k \in {w - 1, w, w + 1} : k >= 1}

InitEvent ==
    /\ call = "PUBody"
    /\ ret = [state |-> "pending"]
    /\ \E w \in Widths, n \in 0..(MaxParticles + 1) :
        \E k \in NParticlesFor(w) :
            \/ \E x \in [1..w -> GeometrySlots], dr \in {None, Some(0), Some(1), Some(2)} :
                arg = [ev |-> PUEvent(x, [j \in 1..w |-> 1], n),
                       c |-> [n_particles |-> k, dr_adj |-> dr,
                              mask_charged |-> FALSE]]
            \/ \E x \in [1..w -> LabelSlots], y \in [1..w -> 0..1], mc \in BOOLEAN :
                arg = [ev |-> PUEvent(x, y, n),
                       c |-> [n_particles |-> k, dr_adj |-> None,
                              mask_charged |-> mc]]
    /\ kind = "none" /\ cfg = <<>> /\ files = <<>> /\ len = 0
    /\ counted = <<>> /\ gen = <<>>

\* the body runs on the event: it yields to_yield, or raises
PUBody ==
    /\ call = "PUBody"
    /\ ret.state = "pending"
    /\ ret' = IF PUBodyRaises(arg.ev, arg.c)
              THEN [state |-> "raised"]
              ELSE [state |-> "returned", val |-> PUToYield(arg.ev, arg.c)]
    /\ UNCHANGED <<dsVars, call, arg>>

SpecEvent == InitEvent /\ [][PUBody]_vars

\* the slice length and the yielded record of the event applied
EvLen == Len(Take(arg.ev.x, Some(arg.c.n_particles)))

Yielded == call = "PUBody" /\ ret.state = "returned"

\* C2: with mask_charged false, the yielded y is -1 at the padded positions
\* (0-based j >= N[i]) and the stored label at the others.
LabelMasking ==
    (Yielded /\ ~arg.c.mask_charged) =>
        \A j \in 1..EvLen :
            ret.val.y[j] = IF j - 1 >= arg.ev.N THEN -1 ELSE arg.ev.y[j]

\* the particle pair (j, k) of the slice is connected
Connected(j, k) ==
    IF Val(arg.c.dr_adj) # 0
    THEN Sq(arg.ev.x[j].eta - arg.ev.x[k].eta)
            + Sq(arg.ev.x[j].phi - arg.ev.x[k].phi) <= Sq(Val(arg.c.dr_adj))
    ELSE j = k

\* C4: when dr_adj is not None, adj_mask[j][k] is 1 exactly when both
\* particles are real (0-based j, k < N[i]) and the pair is connected, and 0
\* otherwise; so the matrix is symmetric, a real particle is connected to
\* itself, and the row and column of a padded particle are zero.
AdjacencyMask ==
    (Yielded /\ arg.c.dr_adj # None) =>
        LET a == ret.val.adj_mask
            n == arg.ev.N
        IN  /\ \A j, k \in 1..EvLen :
                    a[j][k] = IF j - 1 < n /\ k - 1 < n /\ Connected(j, k)
                              THEN 1 ELSE 0
            /\ \A j, k \in 1..EvLen : a[j][k] = a[k][j]
            /\ \A j \in 1..EvLen : j - 1 < n => a[j][j] = 1
            /\ \A j, k \in 1..EvLen : j - 1 >= n => a[j][k] = 0 /\ a[k][j] = 0

\* an event with a real pair inside the cone, a real pair outside it and a
\* padded slot was yielded with a non-zero cone
AdjacencyWitness ==
    /\ Yielded /\ arg.c.dr_adj = Some(1)
    /\ arg.ev.N = 2 /\ EvLen = 3
    /\ \E j, k \in 1..2 : j # k /\ ret.val.adj_mask[j][k] = 1
    /\ \E j \in 1..3 : ret.val.adj_mask[j][j] = 0

\* C8: with mask_charged true, y is -1 where feature column 5 is non-zero
\* and orig_y elsewhere, and orig_y is the y yielded with mask_charged false;
\* with mask_charged false, y is orig_y.
ChargedMasking ==
    Yielded =>
        /\ arg.c.mask_charged =>
                \A j \in 1..EvLen :
                    ret.val.y[j] = IF arg.ev.x[j].q5 # 0 THEN -1
                                   ELSE ret.val.orig_y[j]
        /\ ret.val.orig_y =
                PUToYield(arg.ev, [arg.c EXCEPT !.mask_charged = FALSE]).y
        /\ ~arg.c.mask_charged => ret.val.y = ret.val.orig_y

\* an event with a charged and a neutral particle, both with labels that
\* survived the padding mask, was yielded with mask_charged true
ChargedWitness ==
    /\ Yielded /\ arg.c.mask_charged
    /\ \E j \in 1..EvLen : arg.ev.x[j].q5 = -1 /\ ret.val.orig_y[j] # -1
                            /\ ret.val.y[j] = -1
    /\ \E j \in 1..EvLen : arg.ev.x[j].q5 = 0 /\ ret.val.y[j] = 1

(***************************************************************************)
(* Binary floating point.  A finite float is m * 2^e, held as the record   *)
(* [m, e] with m odd, or m = 0 and e = 0, so that equal values are equal   *)
(* records.  Every operation computes the exact result and rounds it to   *)
(* Precision significant bits, to nearest, ties to even (IEEE 754;         *)
(* binary32 has 24 bits).  Exponents are unbounded: the values drawn stay  *)
(* far from overflow and underflow.                                        *)
(***************************************************************************)
Precision == 24

Abs(a) == IF a < 0 THEN -a ELSE a

Sign(a) == IF a < 0 THEN -1 ELSE 1

\* m * 2^e in canonical form: the trailing zero bits of m go to the exponent
Canon(m, e) ==
    IF m = 0 THEN [m |-> 0, e |-> 0]
    ELSE LET t == CHOOSE t \in 0 .. 30 :
                      m % (2 ^ t) = 0 /\ (m \div (2 ^ t)) % 2 = 1
         IN  [m |-> m \div (2 ^ t), e |-> e + t]

FromInt(i) == Canon(i, 0)

\* n/d * 2^e with the quotient n/d brought into [2^(Precision-1), 2^Precision)
\* by the least doubling of n, or of d, that does it
Normalize(n, d, e) ==
    IF (n \div (2 ^ (Precision - 1))) < d
    THEN LET Enough(s) == ((n * (2 ^ s)) \div (2 ^ (Precision - 1))) >= d
             s == CHOOSE s \in 1 .. 30 :
                      Enough(s) /\ \A u \in 1 .. (s - 1) : ~Enough(u)
         IN  [n |-> n * (2 ^ s), d |-> d, e |-> e - s]
    ELSE IF (n \div (2 ^ Precision)) >= d
    THEN LET Enough(t) == (n \div (2 ^ Precision)) < d * (2 ^ t)
             t == CHOOSE t \in 1 .. 30 :
                      Enough(t) /\ \A u \in 1 .. (t - 1) : ~Enough(u)
         IN  [n |-> n, d |-> d * (2 ^ t), e |-> e + t]
    ELSE [n |-> n, d |-> d, e |-> e]

\* the float nearest to sign * n/d * 2^e (n >= 0, d > 0), ties to even
RoundRat(sign, n, d, e) ==
    IF n = 0 THEN [m |-> 0, e |-> 0]
    ELSE LET z  == Normalize(n, d, e)
             q  == z.n \div z.d
             r  == z.n % z.d
             up == 2 * r > z.d \/ (2 * r = z.d /\ q % 2 = 1)
         IN  Canon(sign * (IF up THEN q + 1 ELSE q), z.e)

\* the exact sum and product, not rounded
ExactAdd(a, b) ==
    LET e == Min(a.e, b.e)
    IN  Canon(a.m * (2 ^ (a.e - e)) + b.m * (2 ^ (b.e - e)), e)

ExactMul(a, b) == Canon(a.m * b.m, a.e + b.e)

FNeg(a) == [m |-> -a.m, e |-> a.e]

FAdd(a, b) ==
    LET x == ExactAdd(a, b) IN RoundRat(Sign(x.m), Abs(x.m), 1, x.e)

FSub(a, b) == FAdd(a, FNeg(b))

FMul(a, b) ==
    LET x == ExactMul(a, b) IN RoundRat(Sign(x.m), Abs(x.m), 1, x.e)

\* a / b for b # 0
FDiv(a, b) == RoundRat(Sign(a.m) * Sign(b.m), Abs(a.m), Abs(b.m), a.e - b.e)

\* the square root of the integer r >= 0, digit by digit: root and rem with
\* root^2 + rem = r * 4^k, carried on until root has Precision + 1 bits
\* the base-4 digits of r > 0, the leading one first
Base4(r) ==
    LET n == CHOOSE n \in 1 .. 16 : r \div (4 ^ (n - 1)) \in 1 .. 3
    IN  [i \in 1 .. n |-> (r \div (4 ^ (n - i))) % 4]

\* one more bit of the root: d is the next base-4 digit of the radicand
SqrtStep(st, d) ==
    LET r2    == 4 * st.rem + d
        trial == 4 * st.root + 1
    IN  IF r2 >= trial
        THEN [root |-> 2 * st.root + 1, rem |-> r2 - trial]
        ELSE [root |-> 2 * st.root, rem |-> r2]

SqrtState == [root : Nat, rem : Nat]

\* the digits lo .. hi of the radicand, zeros past its end, brought down in
\* order onto st
SqrtDigits[st \in SqrtState, digits \in Seq(0 .. 3), lo \in Nat, hi \in Nat] ==
    IF lo > hi THEN st
    ELSE IF lo = hi
         THEN SqrtStep(st, IF lo <= Len(digits) THEN digits[lo] ELSE 0)
         ELSE SqrtDigits[SqrtDigits[st, digits, lo, (lo + hi) \div 2],
                         digits, (lo + hi) \div 2 + 1, hi]

\* the leading digit of Base4(r) is not 0, so the root has one bit per digit
\* brought down
FSqrtInt(r) ==
    IF r = 0 THEN [m |-> 0, e |-> 0]
    ELSE LET digits == Base4(r)
             n  == IF Len(digits) > Precision + 1
                   THEN Len(digits) ELSE Precision + 1
             s  == SqrtDigits[[root |-> 0, rem |-> 0], digits, 1, n]
             q  == s.root \div 2
             up == s.root % 2 = 1 /\ (s.rem # 0 \/ q % 2 = 1)
         IN  Canon(IF up THEN q + 1 ELSE q, 1 - (n - Len(digits)))

(***************************************************************************)
(* METDataset: standardize_met, unstandardize_met, _compute_met,           *)
(* _transform_x and the body of __iter__ for one event of a file.          *)
(***************************************************************************)
\* unstandardize_met with the mean subtracted
unstandardize_met_minus(self, met) ==
    FSub(FMul(self.std_met, met), Val(self.mean_met))

standardize_met(self, met) ==
    FDiv(FSub(met, Val(self.mean_met)), self.std_met)

unstandardize_met(self, met) ==
    FAdd(FMul(self.std_met, met), Val(self.mean_met))

\* cos and sin of phi, for phi a multiple of a right angle (phi counts the
\* quarter turns), where they are taken as exact
Cos(phi) == CASE phi % 4 = 0 -> 1 [] phi % 4 = 2 -> -1 [] OTHER -> 0

Sin(phi) == CASE phi % 4 = 1 -> 1 [] phi % 4 = 3 -> -1 [] OTHER -> 0

\* _transform_x on one event's row: [pt, eta, phi] becomes [px, eta, py].
\* pt is a small integer, so the products are exact.
transform_x(x) ==
    [j \in DOMAIN x |->
        [c0 |-> x[j].pt * Cos(x[j].phi), c1 |-> x[j].eta,
         c2 |-> x[j].pt * Sin(x[j].phi)]]

\* _compute_met on one event's row: the sums are sums of small integers,
\* exact in floating point whatever their order; the square root rounds
compute_met(px, py) == FSqrtInt(Sq(SumSeq(px)) + Sq(SumSeq(py)))

\* the slice lengths of X[:, :50, :] and X[:, :200, :]
SliceMode0 == 50

SliceMode1 == 200

SliceOther == 200

\* the target is calcmet for every training_mode but 0
UsesCalcMetNot0(training_mode) == training_mode # 0

\* self.training_mode in {0, 1}
UsesCalcMet(training_mode) == training_mode \in {0, 1}

\* to_yield of METDataset.__iter__ for one event ev of the loaded file
METToYield(self, ev) ==
    LET X0      == transform_x(ev.x)
        X       == IF self.training_mode = 0 THEN Take(X0, Some(SliceMode0))
                   ELSE IF self.training_mode = 1 THEN Take(X0, Some(SliceMode1))
                   ELSE Take(X0, Some(SliceOther))
        calcmet0 == compute_met([j \in DOMAIN X |-> X[j].c0],
                                [j \in DOMAIN X |-> X[j].c2])
        std(v)  == IF self.mean_met # None THEN standardize_met(self, v) ELSE v
        genmet  == std(ev.met)
        calcmet == std(calcmet0)
        pfmet   == std(ev.pfmet)
        mask    == [j \in DOMAIN X |-> j - 1 < ev.N]
        adj_mask == IF self.dr_adj # None
                    THEN [j \in DOMAIN X |-> [k \in DOMAIN X |->
                            Bool01(Eye(Len(X))[j][k] # 0 /\ mask[j] /\ mask[k])]]
                    ELSE [j \in DOMAIN X |-> Bool01(mask[j])]
    IN  IF UsesCalcMet(self.training_mode)
        THEN <<X, adj_mask, calcmet, pfmet>>
        ELSE <<X, adj_mask, genmet, pfmet>>

\* The events drawn: w particle slots of which the first n are real; the
\* first real particle is a, the other real ones are b, and a padded slot
\* is all zero.
Particles ==
    {[pt |-> 1, eta |-> 0, phi |-> 0], [pt |-> 2, eta |-> 1, phi |-> 1],
     [pt |-> 1, eta |-> 2, phi |-> 2], [pt |-> 3, eta |-> 0, phi |-> 3]}

Padding == [pt |-> 0, eta |-> 0, phi |-> 0]

METEvent(w, n, a, b, met, pfmet) ==
    [x |-> [j \in 1..w |-> IF j > n THEN Padding ELSE IF j = 1 THEN a ELSE b],
     N |-> n, met |-> met, pfmet |-> pfmet]

\* the widths of the stored particle axis: below, between and above the
\* two slice lengths; a non-None dr_adj (a square adj_mask) only with the
\* smallest
METShapes ==
    {[w |-> 2, dr_adj |-> None], [w |-> 2, dr_adj |-> Some(1)],
     [w |-> SliceMode0 + 1, dr_adj |-> None],
     [w |-> SliceMode1 + 1, dr_adj |-> None]}

MetValues == {FromInt(0), FromInt(1), FromInt(7)}

Standardizations ==
    {[mean_met |-> None, std_met |-> FromInt(1)]}
    \cup [mean_met : {Some(FromInt(0)), Some(FromInt(3))},
          std_met : {FromInt(2), FromInt(3), FromInt(49), Canon(-1, -1)}]

InitMETBody ==
    /\ call = "METBody"
    /\ \E sh \in METShapes, n \in {0, 1, 2}, a, b \in Particles,
          st \in Standardizations, tm \in 0..2 :
        arg = [self |-> [mean_met |-> st.mean_met, std_met |-> st.std_met,
                         training_mode |-> tm, dr_adj |-> sh.dr_adj],
               ev |-> METEvent(sh.w, IF n = 2 THEN sh.w ELSE n, a, b,
                               FromInt(7), FromInt(1))]

InitRoundTrip ==
    /\ call \in {"standardize_met", "unstandardize_met"}
    /\ \E st \in Standardizations, m \in MetValues :
        /\ st.mean_met # None
        /\ arg = [self |-> st, met |-> m]

InitMETSpec ==
    /\ InitMETBody \/ InitRoundTrip
    /\ ret = [state |-> "pending"]
    /\ kind = "none" /\ cfg = <<>> /\ files = <<>> /\ len = 0
    /\ counted = <<>> /\ gen = <<>>

\* the loop body of METDataset.__iter__ yields the tuple of one event
METBody ==
    /\ call = "METBody"
    /\ ret.state = "pending"
    /\ ret' = [state |-> "returned", val |-> METToYield(arg.self, arg.ev)]
    /\ UNCHANGED <<dsVars, call, arg>>

\* a round trip: the function call names is applied to arg.met, then the
\* other one to what it returned
StandardizeMet ==
    /\ \/ call = "standardize_met" /\ ret.state = "pending"
       \/ call = "unstandardize_met" /\ ret.state = "half"
    /\ ret' = IF ret.state = "pending"
              THEN [state |-> "half",
                    val |-> standardize_met(arg.self, arg.met)]
              ELSE [state |-> "returned", mid |-> ret.val,
                    val |-> standardize_met(arg.self, ret.val)]
    /\ UNCHANGED <<dsVars, call, arg>>

UnstandardizeMet ==
    /\ \/ call = "unstandardize_met" /\ ret.state = "pending"
       \/ call = "standardize_met" /\ ret.state = "half"
    /\ ret' = IF ret.state = "pending"
              THEN [state |-> "half",
                    val |-> unstandardize_met(arg.self, arg.met)]
              ELSE [state |-> "returned", mid |-> ret.val,
                    val |-> unstandardize_met(arg.self, ret.val)]
    /\ UNCHANGED <<dsVars, call, arg>>

NextMET == METBody \/ StandardizeMet \/ UnstandardizeMet

SpecMET == InitMETSpec /\ [][NextMET]_vars

METYielded == call = "METBody" /\ ret.state = "returned"

RoundTripDone ==
    call \in {"standardize_met", "unstandardize_met"} /\ ret.state = "returned"

\* (v - mean_met) / std_met when mean_met is not None, v when it is
Standardized(self, v) ==
    IF self.mean_met # None
    THEN FDiv(FSub(v, Val(self.mean_met)), self.std_met)
    ELSE v

\* C9: METDataset.__iter__ yields (x, adj_mask, target, pfmet[i]): x is the
\* transformed slice (50 slots for training_mode 0, 200 otherwise), target
\* is the MET computed from that slice for training_mode 0 and 1 and the
\* stored generator MET otherwise, and target and pfmet are standardized
\* when mean_met is not None and raw when it is None.
METYieldsTarget ==
    METYielded =>
        LET t    == ret.val
            self == arg.self
            cut  == IF self.training_mode = 0 THEN 50 ELSE 200
            calc == FSqrtInt(Sq(SumSeq([j \in DOMAIN t[1] |-> t[1][j].c0]))
                             + Sq(SumSeq([j \in DOMAIN t[1] |-> t[1][j].c2])))
        IN  /\ Len(t) = 4
            /\ t[1] = SubSeq(transform_x(arg.ev.x), 1, Min(cut, Len(arg.ev.x)))
            /\ Len(t[2]) = Len(t[1])
            /\ t[3] = Standardized(self,
                        IF self.training_mode \in {0, 1} THEN calc
                        ELSE arg.ev.met)
            /\ t[4] = Standardized(self, arg.ev.pfmet)

\* an event with more real particles than the slice keeps was yielded in
\* training_mode 0 with a standardized target that is not the generator MET
METTargetWitness ==
    /\ METYielded
    /\ arg.self.training_mode = 0 /\ arg.self.mean_met # None
    /\ arg.ev.N > 50 /\ Len(ret.val[1]) = 50
    /\ ret.val[3] # Standardized(arg.self, arg.ev.met)
    /\ ret.val[3] # compute_met([j \in DOMAIN arg.ev.x |-> transform_x(arg.ev.x)[j].c0],
                                [j \in DOMAIN arg.ev.x |-> transform_x(arg.ev.x)[j].c2])

\* C6: unstandardize_met(standardize_met(m)) = m and
\* standardize_met(unstandardize_met(m)) = m, for every m, mean_met and
\* non-zero std_met.
RoundTrip == RoundTripDone => ret.val = arg.met

\* the first function of the round trip rounded nothing: its subtraction
\* and division (standardize_met), or its multiplication and addition
\* (unstandardize_met), gave the exact results
InnerExact ==
    LET mean == Val(arg.self.mean_met)
        std  == arg.self.std_met
    IN  IF call = "standardize_met"
        THEN /\ FSub(arg.met, mean) = ExactAdd(arg.met, FNeg(mean))
             /\ ExactMul(ret.mid, std) = FSub(arg.met, mean)
        ELSE /\ FMul(std, arg.met) = ExactMul(std, arg.met)
             /\ ret.mid = ExactAdd(FMul(std, arg.met), mean)

\* C6, amended: each round trip returns m whenever the arithmetic of the
\* function applied first is exact in floating point.
RoundTripWhenExact == (RoundTripDone /\ InnerExact) => ret.val = arg.met

\* a round trip through an exact standardize_met with a non-zero mean and a
\* std_met other than 1 returned
RoundTripWitness ==
    /\ RoundTripDone /\ InnerExact
    /\ call = "standardize_met"
    /\ arg.self.mean_met = Some(FromInt(3)) /\ arg.self.std_met = FromInt(2)
    /\ arg.met = FromInt(7) /\ ret.mid = FromInt(2)

(***************************************************************************)
(* collate_fn of both classes.  An array is its shape and its elements in  *)
(* row-major order; a scalar has the empty shape.  np.stack(arrays,        *)
(* axis=0) needs arrays of one shape and lays them one after the other     *)
(* under a new leading axis.                                               *)
(***************************************************************************)
\* number of samples of a batch
MaxBatch == 2

Scalar(v) == [shape |-> <<>>, data |-> <<v>>]

Vector(s) == [shape |-> <<Len(s)>>, data |-> s]

RECURSIVE Concat(_)
Concat(ss) == IF ss = <<>> THEN <<>> ELSE Head(ss) \o Concat(Tail(ss))

Reverse(s) == [i \in 1..Len(s) |-> s[Len(s) + 1 - i]]

\* whether np.stack raises ValueError: the arrays differ in shape
StackRaises(arrays) ==
    \E i, j \in DOMAIN arrays : arrays[i].shape # arrays[j].shape

\* np.stack that lays the arrays in reverse order
StackReversed(arrays) ==
    [shape |-> <<Len(arrays)>> \o arrays[1].shape,
     data  |-> Concat([i \in DOMAIN arrays |-> Reverse(arrays)[i].data])]

\* np.stack(arrays, axis=0) of a non-empty list of arrays of one shape
Stack(arrays) ==
    [shape |-> <<Len(arrays)>> \o arrays[1].shape,
     data  |-> Concat([i \in DOMAIN arrays |-> arrays[i].data])]

\* a[b] for an array a with a leading axis and 0-based b
RECURSIVE Product(_)
Product(s) == IF s = <<>> THEN 1 ELSE Head(s) * Product(Tail(s))

Item(a, b) ==
    LET size == Product(Tail(a.shape))
    IN  [shape |-> Tail(a.shape),
         data  |-> SubSeq(a.data, b * size + 1, (b + 1) * size)]

\* PUDataset.collate_fn: whether it raises (a sample lacks a key of the
\* first one, or np.stack refuses the shapes), and what it returns
PUCollateRaises(samples) ==
    \/ \E k \in DOMAIN samples[1], b \in DOMAIN samples : k \notin DOMAIN samples[b]
    \/ \E k \in DOMAIN samples[1] :
            StackRaises([b \in DOMAIN samples |-> samples[b][k]])

PUCollate(samples) ==
    [k \in DOMAIN samples[1] |-> Stack([b \in DOMAIN samples |-> samples[b][k]])]

\* METDataset.collate_fn: n_fts = len(samples[0])
METCollateRaises(samples) ==
    \/ \E b \in DOMAIN samples : Len(samples[b]) < Len(samples[1])
    \/ \E i \in 1..Len(samples[1]) :
            StackRaises([b \in DOMAIN samples |-> samples[b][i]])

METCollate(samples) ==
    [i \in 1..Len(samples[1]) |-> Stack([b \in DOMAIN samples |-> samples[b][i]])]

\* the samples drawn: dictionaries over two key sets and tuples of two
\* lengths, with label vectors of one or two slots
LabelVectors == UNION {[1..n -> 0..1] : n \in 1..2}

PUSamples ==
    {[y |-> Vector(y), genmet |-> Scalar(g)] : y \in LabelVectors, g \in 5..6}
    \cup {[y |-> Vector(y), genmet |-> Scalar(5), mask |-> Vector(y)] :
            y \in LabelVectors}

METSamples ==
    {<<Vector(y), Scalar(g)>> : y \in LabelVectors, g \in 5..6}
    \cup {<<Vector(y), Scalar(5), Scalar(6)>> : y \in LabelVectors}

InitCollate ==
    /\ \E n \in 1..MaxBatch :
        \/ call = "PUCollate" /\ arg \in [1..n -> PUSamples]
        \/ call = "METCollate" /\ arg \in [1..n -> METSamples]
    /\ ret = [state |-> "pending"]
    /\ kind = "none" /\ cfg = <<>> /\ files = <<>> /\ len = 0
    /\ counted = <<>> /\ gen = <<>>

PUCollateFn ==
    /\ call = "PUCollate"
    /\ ret.state = "pending"
    /\ ret' = IF PUCollateRaises(arg) THEN [state |-> "raised"]
              ELSE [state |-> "returned", val |-> PUCollate(arg)]
    /\ UNCHANGED <<dsVars, call, arg>>

METCollateFn ==
    /\ call = "METCollate"
    /\ ret.state = "pending"
    /\ ret' = IF METCollateRaises(arg) THEN [state |-> "raised"]
              ELSE [state |-> "returned", val |-> METCollate(arg)]
    /\ UNCHANGED <<dsVars, call, arg>>

NextCollate == PUCollateFn \/ METCollateFn

SpecCollate == InitCollate /\ [][NextCollate]_vars

Collated == call \in {"PUCollate", "METCollate"} /\ ret.state = "returned"

\* the samples share their keys (dictionaries) or their length (tuples)
SameKeys == \A b \in DOMAIN arg : DOMAIN arg[b] = DOMAIN arg[1]

\* C5: for samples that share their keys (or their tuple length), the
\* result of collate_fn has the keys (positions) of the first sample, and
\* under each of them a batch of len(samples) entries whose entry b is the
\* value of sample b, in the order given.
CollateStacks ==
    (Collated /\ SameKeys) =>
        /\ DOMAIN ret.val = DOMAIN arg[1]
        /\ \A k \in DOMAIN ret.val :
            /\ Head(ret.val[k].shape) = Len(arg)
            /\ \A b \in DOMAIN arg : Item(ret.val[k], b - 1) = arg[b][k]

\* a batch of two different dictionaries with the same keys was collated
CollateWitness ==
    /\ Collated /\ SameKeys
    /\ call = "PUCollate" /\ Len(arg) = 2
    /\ arg[1].y # arg[2].y /\ arg[1].genmet # arg[2].genmet
    /\ Len(arg[1].y.data) = 2

=============================================================================
